---- MODULE Spec2Model ----
(***************************************************************************)
(* A model of pyDCX (package DCX2496): the multiplexing daemon             *)
(* (daemon.py), the transports (connector.py) and the frame codec          *)
(* (constants.py, responses.py, device.py).                                *)
(*                                                                         *)
(* Bytes are the integers 0..255 and a byte string is a sequence of them.  *)
(* Python indexes from 0, TLA+ from 1: At(s, i) is Python's s[i].          *)
(*                                                                         *)
(* daemon.py imports the name TERMINATOR from constants.py, which defines  *)
(* only TERMINATOR_BYTE; the model reads TERMINATOR as that byte.          *)
(***************************************************************************)
EXTENDS Integers, Sequences, FiniteSets, TLC

(* ------------------------------------------------------------------ *)
(* Bounds of the model                                                   *)
(* ------------------------------------------------------------------ *)
MaxClients == 2
MaxDispatch == 2
MaxTicks == 2

(* ------------------------------------------------------------------ *)
(* constants.py                                                          *)
(* ------------------------------------------------------------------ *)
DCX_HEADER == <<240, 0, 32, 50>>
SEPARATOR_BYTE == 14
TERMINATOR_BYTE == 247
FUNCTION_BYTE == 6
COMMAND == 32
TRANSMIT == 63
SEARCH == 64
PING == 68
DUMP == 80
HAVE_RESPONSE_WithoutDump == {SEARCH, PING}

HAVE_RESPONSE_WithTransmit == {SEARCH, PING, DUMP, TRANSMIT}

HAVE_RESPONSE == {SEARCH, PING, DUMP}

(* ------------------------------------------------------------------ *)
(* Python's bytes operations                                             *)
(* ------------------------------------------------------------------ *)
At(s, i) == s[i + 1]

Min2(a, b) == IF a < b THEN a ELSE b
Max2(a, b) == IF a > b THEN a ELSE b

\* A slice bound as Python normalises it: negative bounds count from the end.
SliceBound(n, i) == IF i < 0 THEN Max2(n + i, 0) ELSE Min2(i, n)

\* s[a:b]
PySlice(s, a, b) ==
    LET lo == SliceBound(Len(s), a)
        hi == SliceBound(Len(s), b)
    IN  IF hi <= lo THEN <<>> ELSE SubSeq(s, lo + 1, hi)

\* byte in s
Contains(s, byte) == \E i \in 1..Len(s) : s[i] = byte

\* s.find(byte, start): the first index >= start holding byte, else -1
Find(s, byte, start) ==
    LET hits == {i \in start..(Len(s) - 1) : At(s, i) = byte}
    IN  IF hits = {} THEN -1
        ELSE CHOOSE i \in hits : \A j \in hits : i <= j

StartsWith(s, p) == Len(s) >= Len(p) /\ SubSeq(s, 1, Len(p)) = p

Zeros(n) == [i \in 1..n |-> 0]

\* bytearray.extend, once for each byte string of a list, in order
RECURSIVE Flatten(_)
Flatten(seqs) == IF seqs = <<>> THEN <<>> ELSE Head(seqs) \o Flatten(Tail(seqs))

(* ------------------------------------------------------------------ *)
(* device.py: Device.__do_call builds the frame                          *)
(* ------------------------------------------------------------------ *)
DoCallFrame(device_id, function, data) ==
    DCX_HEADER \o <<device_id, SEPARATOR_BYTE, function>> \o data \o <<TERMINATOR_BYTE>>

\* Device.__command: value_low = value & 0x7F, value_high = (value >> 7) & 0xFF
ValueLow(value) == value % 128

ValueHighSevenBits(value) == (value \div 128) % 128

ValueHigh(value) == (value \div 128) % 256

\* Device.__command(channel, parameter, value)
EncodeCommandBytes(channel, parameter, value) ==
    <<channel, parameter, ValueHigh(value), ValueLow(value)>>

(* ------------------------------------------------------------------ *)
(* responses.py: what the constructors accept                            *)
(* ------------------------------------------------------------------ *)
\* Response.__init__: header, more than 8 bytes, terminator last
ResponseInitOk(data) ==
    /\ StartsWith(data, DCX_HEADER)
    /\ Len(data) > 8
    /\ data[Len(data)] = TERMINATOR_BYTE

SearchResponseInitOk(data) == Len(data) = 26 /\ ResponseInitOk(data)

PingResponseInitOk(data) == Len(data) = 25 /\ ResponseInitOk(data)

\* _is_bit(byte, bit): bool(byte & (1 << bit))
IsBit(byte, bit) == (byte \div (2 ^ bit)) % 2 = 1

ClearBitKeeps(byte, bit) == byte

\* _clear_bit(byte, bit): byte & ~(1 << bit)
ClearBit(byte, bit) == IF IsBit(byte, bit) THEN byte - 2 ^ bit ELSE byte

\* PingResponse._PingData
PingData(data) == [limited |-> IsBit(data, 5), level |-> ClearBit(data, 5)]

\* channel.py: the channels a Ping reports, INPUT_A = 1 .. OUTPUT_6 = 10
PingChannels == 1..10

\* PingResponse.__init__, lines 84-86: channels[channel] from data[8 + channel]
PingResponseChannels(data) == [ch \in PingChannels |-> PingData(At(data, 8 + ch))]

\* Response.payload: data[6:-1]
ResponsePayload(data) == PySlice(data, 6, -1)

\* DumpResponse
LENGTH_PART0 == 1015
LENGTH_PART1 == 911

\* DumpResponse.part_0
DumpPart0(data) ==
    IF Len(data) >= LENGTH_PART0 THEN PySlice(data, 6, LENGTH_PART0 - 1) ELSE <<>>

\* DumpResponse.part_1
DumpPart1(data) ==
    IF Len(data) > LENGTH_PART0 THEN PySlice(data, LENGTH_PART0 + 6, -1)
    ELSE IF Len(data) = LENGTH_PART1 THEN ResponsePayload(data)
    ELSE <<>>

\* DumpResponse.payload
DumpPayload(data) == DumpPart0(data) \o DumpPart1(data)

\* SearchResponse.device_id and shown_id
SearchDeviceId(data) == At(data, 4)

ShownIdRaw(device_id) == device_id

ShownId(device_id) == device_id + 1

(* ------------------------------------------------------------------ *)
(* connector.py                                                          *)
(* ------------------------------------------------------------------ *)
\* Connector.get_response: the class data[FUNCTION_BYTE] selects
ResponseType(data) ==
    LET f == At(data, FUNCTION_BYTE)
    IN  IF f = 0 THEN "SearchResponse"
        ELSE IF f = 4 THEN "PingResponse"
        ELSE IF f = 16 THEN "DumpResponse"
        ELSE "Response"

\* the payload property of the response get_response builds from data
DecodedPayload(data) ==
    IF ResponseType(data) = "DumpResponse" THEN DumpPayload(data)
    ELSE ResponsePayload(data)

\* Python's None for "no response"; a Response is modelled by its data,
\* which is never empty.
None == <<>>

\* Connector.get_response: data[FUNCTION_BYTE] selects the class, the class
\* validates. The name of the exception raised, or "" when a Response is built.
GetResponseRaises(data) ==
    IF Len(data) <= FUNCTION_BYTE THEN "IndexError"
    ELSE LET f == At(data, FUNCTION_BYTE)
             ok == IF f = 0 THEN SearchResponseInitOk(data)
                   ELSE IF f = 4 THEN PingResponseInitOk(data)
                   ELSE ResponseInitOk(data)
         IN  IF ok THEN "" ELSE "AssertionError"

\* What serial.write can do with a command: transfer it all, transfer fewer
\* bytes, or raise.
WriteOutcomes == {"ok", "short", "error"}

\* SerialConnector.write_command: the call of serial.write with the bytes it
\* transferred, and the exception raised
WriteEvent(command, w) ==
    [op |-> "write", data |-> command,
     written |-> IF w = "ok" THEN Len(command)
                 ELSE IF w = "short" THEN Max2(Len(command) - 1, 0) ELSE 0]

WriteCommandRaises(command, w) ==
    IF w = "error" THEN "SerialException"
    ELSE IF WriteEvent(command, w).written # Len(command) THEN "DCXSerialException"
    ELSE ""

\* SerialConnector.read_response: the bytes of the line up to and including
\* the first terminator (the port is opened without a timeout, so read(1)
\* blocks until a byte arrives)
SerialReadResponse(line) ==
    LET idx == Find(line, TERMINATOR_BYTE, 0)
    IN  IF idx = -1 THEN line ELSE PySlice(line, 0, idx + 1)

ReadEvent(data) == [op |-> "read", data |-> data, written |-> 0]

\* Connector.handle_command(command) against the serial line: w is what the
\* write does, line the bytes the device answers with.
\* raised: the exception that leaves the call ("" for none); resp: the value
\* returned; events: what happened on the serial line, in order.
ConnectorHandleCommand(command, w, line) ==
    LET wr == WriteEvent(command, w)
        data == SerialReadResponse(line)
    IN  IF WriteCommandRaises(command, w) # ""
        THEN [raised |-> WriteCommandRaises(command, w), resp |-> None,
              events |-> <<wr>>]
        ELSE IF Len(command) <= FUNCTION_BYTE
        THEN [raised |-> "IndexError", resp |-> None, events |-> <<wr>>]
        ELSE IF At(command, FUNCTION_BYTE) \in HAVE_RESPONSE
        THEN [raised |-> GetResponseRaises(data),
              resp |-> IF GetResponseRaises(data) = "" THEN data ELSE None,
              events |-> <<wr, ReadEvent(data)>>]
        ELSE [raised |-> "", resp |-> None, events |-> <<wr>>]

(* ------------------------------------------------------------------ *)
(* daemon.py: configuration and DCXDaemon.handle_command                 *)
(* ------------------------------------------------------------------ *)
\* run_daemon: --cache absent gives None, --cache alone gives 600,
\* --cache N gives N. None is modelled as 0: both are false in line 87.
DefaultCacheSeconds == 600

RunDaemonCache(arg) ==
    IF arg[1] = "flag" THEN DefaultCacheSeconds
    ELSE IF arg[1] = "absent" THEN 0
    ELSE arg[2]

\* dump_cache and connections[conn] are tuples: item assignment raises
\* TypeError (lines 76, 93 and 94 assign to an item).
DumpCacheEntryIsTuple == TRUE

ConnectionsEntryIsList == FALSE

ConnectionsEntryIsTuple == TRUE

\* dump_cache = ((0, None), (0, None))
InitialDumpCache == [p \in {0, 1} |-> <<0, None>>]

CacheableAnyFunction(ttl, command) == ttl # 0

\* line 87: the cache is in use and the command is a DUMP
Cacheable(ttl, command) == ttl # 0 /\ At(command, FUNCTION_BYTE) = DUMP

CachePartFixed(command) == 0

\* line 88: the slot is picked by the part byte of the request
CachePart(command) == At(command, FUNCTION_BYTE + 3)

\* DCXDaemon.handle_command(command) at time t with the cache as given.
\* lookups: the cache slots line 89 read.
HandleCommand(caching, cache, t, command, w, line) ==
    LET viaTransport == ConnectorHandleCommand(command, w, line)
        plain(r) == [raised |-> r.raised, resp |-> r.resp, events |-> r.events,
                     cache |-> cache, lookups |-> {}]
        raise(e) == [raised |-> e, resp |-> None, events |-> <<>>,
                     cache |-> cache, lookups |-> {}]
    IN  IF caching = 0 THEN plain(viaTransport)
        ELSE IF Len(command) <= FUNCTION_BYTE THEN raise("IndexError")
        ELSE IF ~Cacheable(caching, command) THEN plain(viaTransport)
        ELSE IF Len(command) <= FUNCTION_BYTE + 3 THEN raise("IndexError")
        ELSE LET part == CachePart(command)
             IN  IF part \notin {0, 1} THEN raise("IndexError")
                 ELSE IF cache[part][1] > t - caching
                 THEN [raised |-> "", resp |-> cache[part][2], events |-> <<>>,
                       cache |-> cache, lookups |-> {part}]
                 ELSE IF viaTransport.raised # ""
                 THEN [plain(viaTransport) EXCEPT !.lookups = {part}]
                 ELSE IF DumpCacheEntryIsTuple
                 THEN [raised |-> "TypeError", resp |-> None,
                       events |-> viaTransport.events,
                       cache |-> cache, lookups |-> {part}]
                 ELSE [raised |-> "", resp |-> viaTransport.resp,
                       events |-> viaTransport.events,
                       cache |-> [cache EXCEPT ![part] = <<t, viaTransport.resp>>],
                       lookups |-> {part}]

(* ------------------------------------------------------------------ *)
(* The environment: clients of the daemon and the device                 *)
(* ------------------------------------------------------------------ *)
Clients == 1..MaxClients

\* The listening socket, as an entry of select's lists
SERVER == 0

\* Frames as the client library builds them (device.py)
SearchFrame == DoCallFrame(32, SEARCH, <<>>)
PingFrame == DoCallFrame(0, PING, <<0, 0>>)
TransmitFrame == DoCallFrame(0, TRANSMIT, <<4, 0>>)
DumpFrame(part) == DoCallFrame(0, DUMP, <<1, 0, part>>)

\* Nine bytes with the only terminator at offset 2
EarlyTerminator == <<240, 0, TERMINATOR_BYTE, 50, 0, SEPARATOR_BYTE, SEARCH, 0, 0>>

\* What a client sends, as the chunks that arrive at the daemon's socket:
\* one frame, a frame split over two arrivals, two frames coalesced, two
\* frames one after the other, a terminator before offset 7, a frame cut off.
Scripts ==
    { <<SearchFrame>>,
      <<PySlice(PingFrame, 0, 4), PySlice(PingFrame, 4, Len(PingFrame))>>,
      <<DumpFrame(0) \o SearchFrame>>,
      <<TransmitFrame, PingFrame>>,
      <<EarlyTerminator>>,
      <<PySlice(PingFrame, 0, 5)>> }

\* What the device puts on the serial line in answer to a command
SearchReply == DCX_HEADER \o <<0, SEPARATOR_BYTE, 0>> \o Zeros(18) \o <<TERMINATOR_BYTE>>
PingReply == DCX_HEADER \o <<0, SEPARATOR_BYTE, 4>> \o Zeros(17) \o <<TERMINATOR_BYTE>>
DumpReply(part) == DCX_HEADER \o <<0, SEPARATOR_BYTE, 16, part, TERMINATOR_BYTE>>

\* no header; too short; wrong length for a Ping; wrong length for a Search
MalformedLines ==
    { <<0, 0, 32, 50, 0, SEPARATOR_BYTE, 16, 0, TERMINATOR_BYTE>>,
      <<TERMINATOR_BYTE>>,
      DCX_HEADER \o <<0, SEPARATOR_BYTE, 4, 0, TERMINATOR_BYTE>>,
      DCX_HEADER \o <<0, SEPARATOR_BYTE, 0>> \o Zeros(17) \o <<TERMINATOR_BYTE>> }

\* The device answers a command with the reply of its function, or badly
DeviceLines(command) ==
    MalformedLines \cup
    (IF Len(command) <= FUNCTION_BYTE THEN {}
     ELSE IF At(command, FUNCTION_BYTE) = SEARCH THEN {SearchReply}
     ELSE IF At(command, FUNCTION_BYTE) = PING THEN {PingReply}
     ELSE IF At(command, FUNCTION_BYTE) = DUMP /\ Len(command) > FUNCTION_BYTE + 3
     THEN {DumpReply(At(command, FUNCTION_BYTE + 3) % 2)}
     ELSE {})

\* What a round trip on the serial line can meet: what the write does and,
\* when the write succeeds and a response is read, the bytes on the line
TransportOutcomes(command) ==
    {<<"short", <<>>>>, <<"error", <<>>>>} \cup
    (IF Len(command) > FUNCTION_BYTE /\ At(command, FUNCTION_BYTE) \in HAVE_RESPONSE
     THEN {<<"ok", l>> : l \in DeviceLines(command)}
     ELSE {<<"ok", <<>>>>})

\* Seconds since the epoch when the daemon starts, and the seconds that pass
\* between two observations of the clock
Epoch == 1000
TickSeconds == 400

\* --cache as given on the command line: absent, alone, or with a value (here
\* a time-to-live that reaches back before the epoch, so that the slots as
\* they start, stamped 0, count as fresh)
CacheArgs == {<<"absent", 0>>, <<"flag", 0>>, <<"value", 2000>>}

\* The two settings the event loop is started with: caching off, caching on
LoopCacheArgs == {<<"absent", 0>>, <<"flag", 0>>}

(* ------------------------------------------------------------------ *)
(* State                                                                 *)
(* ------------------------------------------------------------------ *)
VARIABLES
    pc,           \* where DCXDaemon.run is: "select", "readable", "writeable", "crashed"
    connections,  \* the client keys of self.connections, in insertion order
    inbuf,        \* self.connections[sock][0]
    outbuf,       \* self.connections[sock][1]
    readable,     \* select's readable list, the part not yet iterated
    writeable,    \* select's writeable list, the part not yet iterated
    sock,         \* each client socket: "free", "pending", "open", "closed"
    rx,           \* bytes that arrived at the socket and were not yet received
    script,       \* chunks the peer has still to send
    peerClosed,   \* the peer closed its end
    received,     \* history: the bytes recv returned, per socket
    delivered,    \* bytes sendall handed to the peer
    transport,    \* what happened on the serial line, in order
    dump_cache,   \* self.dump_cache
    caching,      \* self.caching (0 for None)
    now,          \* time.time()
    crashAt,      \* where an exception left run(), "none" while it runs
    extracted,    \* history: the commands line 75 cut out, with their socket
    dispatched,   \* history: the calls of handle_command at line 77
    codec,        \* the last call of a codec function: its arguments and result
    dev,          \* a Device of the client library: batch_mode, its command queue, its last call
    remote,       \* a client using DaemonConnector: its socket and the calls it made
    reader,       \* one call of read_response: the connector, its stream, what it gathered
    pings         \* the PingResponse objects decoded so far and the dict they hold

vars == <<pc, connections, inbuf, outbuf, readable, writeable, sock, rx, script,
          peerClosed, received, delivered, transport, dump_cache, caching, now, crashAt,
          extracted, dispatched, codec, dev, remote, reader, pings>>

envVars == <<sock, rx, script, peerClosed>>
loopVars == <<pc, readable, writeable>>
serialVars == <<transport, dump_cache, dispatched>>

\* no codec function was called
NoCall == [op |-> "none"]

\* no Device was created, no DaemonConnector connected
NoDevice == [batch_mode |-> FALSE, commands |-> <<>>, last |-> NoCall]
NoRemote == [state |-> "none"]

\* no read_response is under way, no PingResponse was built
NoReader == [state |-> "none"]
NoPings == [state |-> "none"]

InConnections(c) == \E i \in 1..Len(connections) : connections[i] = c

Remove(seq, c) == SelectSeq(seq, LAMBDA x : x # c)

TypeOK ==
    /\ pc \in {"select", "readable", "writeable", "crashed", "dispatch", "codec",
              "device", "remote", "read", "ping", "wire"}
    /\ \A i \in 1..Len(connections) : connections[i] \in Clients
    /\ \A c \in Clients : sock[c] \in {"free", "pending", "open", "closed"}
    /\ caching \in Nat
    /\ now \in Nat

Init ==
    /\ pc = "select"
    /\ connections = <<>>
    /\ inbuf = [c \in Clients |-> <<>>]
    /\ outbuf = [c \in Clients |-> <<>>]
    /\ readable = <<>>
    /\ writeable = <<>>
    /\ sock = [c \in Clients |-> "free"]
    /\ rx = [c \in Clients |-> <<>>]
    /\ script = [c \in Clients |-> <<>>]
    /\ peerClosed = [c \in Clients |-> FALSE]
    /\ received = [c \in Clients |-> <<>>]
    /\ delivered = [c \in Clients |-> <<>>]
    /\ transport = <<>>
    /\ dump_cache = InitialDumpCache
    /\ caching \in {RunDaemonCache(a) : a \in LoopCacheArgs}
    /\ now = Epoch
    /\ crashAt = "none"
    /\ extracted = <<>>
    /\ dispatched = <<>>
    /\ codec = NoCall
    /\ dev = NoDevice
    /\ remote = NoRemote
    /\ reader = NoReader
    /\ pings = NoPings

(* ------------------------------------------------------------------ *)
(* The environment's steps                                               *)
(* ------------------------------------------------------------------ *)
\* The peers act while the daemon waits in select: a peer's step commutes with
\* the steps of one loop iteration, which reads the sockets only when it
\* receives from them.
Running == crashAt = "none" /\ pc = "select"

\* A client connects; what it will send is fixed here
Connect(c) ==
    /\ Running
    /\ sock[c] = "free"
    /\ \E s \in Scripts : script' = [script EXCEPT ![c] = s]
    /\ sock' = [sock EXCEPT ![c] = "pending"]
    /\ UNCHANGED <<loopVars, connections, inbuf, outbuf, rx, peerClosed, received, delivered,
                   serialVars, caching, now, crashAt, extracted>>
    /\ UNCHANGED <<codec, dev, remote, reader, pings>>

\* The next chunk of a client arrives at its socket
PeerSend(c) ==
    /\ Running
    /\ sock[c] \in {"pending", "open"}
    /\ ~peerClosed[c]
    /\ script[c] # <<>>
    /\ rx' = [rx EXCEPT ![c] = @ \o Head(script[c])]
    /\ script' = [script EXCEPT ![c] = Tail(@)]
    /\ UNCHANGED <<loopVars, connections, inbuf, outbuf, sock, peerClosed, received, delivered,
                   serialVars, caching, now, crashAt, extracted>>
    /\ UNCHANGED <<codec, dev, remote, reader, pings>>

\* A client closes its end, whatever it had still to send
PeerClose(c) ==
    /\ Running
    /\ sock[c] \in {"pending", "open"}
    /\ ~peerClosed[c]
    /\ peerClosed' = [peerClosed EXCEPT ![c] = TRUE]
    /\ script' = [script EXCEPT ![c] = <<>>]
    /\ UNCHANGED <<loopVars, connections, inbuf, outbuf, sock, rx, received, delivered,
                   serialVars, caching, now, crashAt, extracted>>
    /\ UNCHANGED <<codec, dev, remote, reader, pings>>

(* ------------------------------------------------------------------ *)
(* daemon.py: DCXDaemon.run, read_client, write_client                   *)
(* ------------------------------------------------------------------ *)
RecvSize == 1024

\* select.select(keys, keys, [], 60): the sockets with something to read, in
\* key order (the listening socket is the first key), and any of the client
\* sockets as writeable
Select ==
    /\ pc = "select"
    /\ crashAt = "none"
    /\ \E W \in SUBSET {connections[i] : i \in 1..Len(connections)} :
          writeable' = SelectSeq(connections, LAMBDA c : c \in W)
    /\ readable' =
          (IF \E c \in Clients : sock[c] = "pending" THEN <<SERVER>> ELSE <<>>)
          \o SelectSeq(connections, LAMBDA c : rx[c] # <<>> \/ peerClosed[c])
    /\ pc' = "readable"
    /\ UNCHANGED <<connections, inbuf, outbuf, envVars, received, delivered, serialVars,
                   caching, now, crashAt, extracted>>
    /\ UNCHANGED <<codec, dev, remote, reader, pings>>

\* lines 54-56: accept a client and register its two empty buffers
Accept ==
    /\ pc = "readable"
    /\ readable # <<>>
    /\ Head(readable) = SERVER
    /\ \E c \in Clients :
          /\ sock[c] = "pending"
          /\ sock' = [sock EXCEPT ![c] = "open"]
          /\ connections' = Append(connections, c)
          /\ inbuf' = [inbuf EXCEPT ![c] = <<>>]
          /\ outbuf' = [outbuf EXCEPT ![c] = <<>>]
    /\ readable' = Tail(readable)
    /\ UNCHANGED <<pc, writeable, rx, script, peerClosed, received, delivered, serialVars,
                   caching, now, crashAt, extracted>>
    /\ UNCHANGED <<codec, dev, remote, reader, pings>>

\* del self.connections[sock]; sock.close()
DropClient(c) ==
    /\ connections' = Remove(connections, c)
    /\ sock' = [sock EXCEPT ![c] = "closed"]
    /\ inbuf' = [inbuf EXCEPT ![c] = <<>>]
    /\ outbuf' = [outbuf EXCEPT ![c] = <<>>]

\* An exception leaves run(): the daemon terminates
Crash(where) ==
    /\ crashAt' = where
    /\ pc' = "crashed"

\* read_client lines 77-79 for socket c: handle_command(command), the reply
\* appended to the outbound buffer, the inbound buffer cleared. rest is the
\* inbound buffer as line 76 left it. An exception of handle_command is caught
\* neither in read_client nor in run.
DispatchLines(c, command, rest, w, line) ==
    LET r == HandleCommand(caching, dump_cache, now, command, w, line)
    IN  /\ transport' = transport \o r.events
        /\ dump_cache' = r.cache
        /\ dispatched' = Append(dispatched,
              [sock |-> c, command |-> command, raised |-> r.raised,
               resp |-> r.resp, events |-> r.events, lookups |-> r.lookups,
               at |-> now, cacheBefore |-> dump_cache, cacheAfter |-> r.cache])
        /\ IF r.raised # ""
           THEN /\ inbuf' = [inbuf EXCEPT ![c] = rest]
                /\ UNCHANGED outbuf
                /\ Crash("read_client:77")
           ELSE /\ outbuf' = [outbuf EXCEPT ![c] =
                      @ \o (IF r.resp # None THEN r.resp ELSE <<TERMINATOR_BYTE>>)]
                /\ inbuf' = [inbuf EXCEPT ![c] = <<>>]
                /\ UNCHANGED <<crashAt, pc>>

\* line 73: the buffer is taken to hold a complete frame
HasFrame(buf) == Len(buf) >= 8 /\ Contains(buf, TERMINATOR_BYTE)

\* line 75: command = buffer[0 : idx + 1]
CutCommand(buf) == PySlice(buf, 0, Find(buf, TERMINATOR_BYTE, 7) + 1)

\* line 76, right-hand side: buffer[idx:-1]
CutRest(buf) == PySlice(buf, Find(buf, TERMINATOR_BYTE, 7), -1)

\* read_client(sock) for the next socket of the readable list
ReadClient ==
    /\ pc = "readable"
    /\ readable # <<>>
    /\ Head(readable) # SERVER
    /\ LET c == Head(readable)
           data == PySlice(rx[c], 0, RecvSize)
           buf == inbuf[c] \o data
       IN  /\ rx' = [rx EXCEPT ![c] = PySlice(@, RecvSize, Len(@))]
           /\ readable' = Tail(readable)
           /\ received' = [received EXCEPT ![c] = @ \o data]
           /\ UNCHANGED <<writeable, script, peerClosed, delivered, caching, now>>
           /\ IF data = <<>>
              THEN /\ DropClient(c)
                   /\ UNCHANGED <<pc, crashAt, serialVars, extracted>>
              ELSE IF ~HasFrame(buf)
              THEN /\ inbuf' = [inbuf EXCEPT ![c] = buf]
                   /\ UNCHANGED <<pc, crashAt, connections, sock, outbuf,
                                  serialVars, extracted>>
              ELSE /\ extracted' = Append(extracted,
                          [sock |-> c, command |-> CutCommand(buf)])
                   /\ UNCHANGED <<connections, sock>>
                   /\ IF ConnectionsEntryIsTuple
                      THEN /\ inbuf' = [inbuf EXCEPT ![c] = buf]
                           /\ Crash("read_client:76")
                           /\ UNCHANGED <<outbuf, serialVars>>
                      ELSE \E o \in TransportOutcomes(CutCommand(buf)) :
                              DispatchLines(c, CutCommand(buf), CutRest(buf), o[1], o[2])
    /\ UNCHANGED <<codec, dev, remote, reader, pings>>

\* the readable list is done: go on to the writeable list
EndReadable ==
    /\ pc = "readable"
    /\ readable = <<>>
    /\ pc' = "writeable"
    /\ UNCHANGED <<connections, inbuf, outbuf, readable, writeable, envVars,
                   received, delivered, serialVars, caching, now, crashAt, extracted>>
    /\ UNCHANGED <<codec, dev, remote, reader, pings>>

\* lines 59-64: write_client(sock) for the next socket of the writeable list,
\* inside try/except. The handler closes the socket and deletes its entry; a
\* KeyError raised by the handler's own del leaves run().
WriteClient ==
    /\ pc = "writeable"
    /\ writeable # <<>>
    /\ LET c == Head(writeable)
       IN  /\ writeable' = Tail(writeable)
           /\ UNCHANGED <<readable, rx, script, peerClosed, received, serialVars, caching,
                          now, extracted>>
           /\ IF ~InConnections(c)
              THEN /\ Crash("run:64")
                   /\ UNCHANGED <<connections, inbuf, outbuf, sock, delivered>>
              ELSE IF outbuf[c] = <<>>
              THEN UNCHANGED <<pc, crashAt, connections, inbuf, outbuf, sock, delivered>>
              ELSE \E sent \in BOOLEAN :
                      /\ UNCHANGED <<pc, crashAt>>
                      /\ IF sent
                         THEN /\ delivered' = [delivered EXCEPT ![c] = @ \o outbuf[c]]
                              /\ outbuf' = [outbuf EXCEPT ![c] = <<>>]
                              /\ UNCHANGED <<connections, inbuf, sock>>
                         ELSE /\ DropClient(c)
                              /\ UNCHANGED delivered
    /\ UNCHANGED <<codec, dev, remote, reader, pings>>

\* the writeable list is done: back to select
EndWriteable ==
    /\ pc = "writeable"
    /\ writeable = <<>>
    /\ pc' = "select"
    /\ UNCHANGED <<connections, inbuf, outbuf, readable, writeable, envVars,
                   received, delivered, serialVars, caching, now, crashAt, extracted>>
    /\ UNCHANGED <<codec, dev, remote, reader, pings>>

Next ==
    \/ \E c \in Clients : Connect(c)
    \/ \E c \in Clients : PeerSend(c)
    \/ \E c \in Clients : PeerClose(c)
    \/ Select
    \/ Accept
    \/ ReadClient
    \/ EndReadable
    \/ WriteClient
    \/ EndWriteable

Spec == Init /\ [][Next]_vars

(* ------------------------------------------------------------------ *)
(* The dispatch step on its own: read_client lines 77-79 applied to a    *)
(* command, for the statements about handle_command and the transport.   *)
(* In Spec line 76 raises before line 77 is reached.                     *)
(* ------------------------------------------------------------------ *)
\* What line 75 can hand to handle_command: nothing at all (no terminator at
\* offset 7 or later), or at least 8 bytes ending with the terminator. The
\* inbound buffers hold what is left of earlier reads: nothing, or the
\* beginning of a frame.
DispatchCommands ==
    { <<>>, SearchFrame, PingFrame, TransmitFrame,
      DoCallFrame(0, COMMAND, <<1, 1, 2, 0, 5>>),
      DumpFrame(0), DumpFrame(1), DoCallFrame(0, DUMP, <<>>) }

InitDispatch ==
    /\ pc = "dispatch"
    /\ connections = [i \in 1..MaxClients |-> i]
    /\ inbuf = [c \in Clients |-> IF c = 1 THEN <<>> ELSE PySlice(PingFrame, 0, 5)]
    /\ outbuf = [c \in Clients |-> <<>>]
    /\ readable = <<>>
    /\ writeable = <<>>
    /\ sock = [c \in Clients |-> "open"]
    /\ rx = [c \in Clients |-> <<>>]
    /\ script = [c \in Clients |-> <<>>]
    /\ peerClosed = [c \in Clients |-> FALSE]
    /\ received = [c \in Clients |-> <<>>]
    /\ delivered = [c \in Clients |-> <<>>]
    /\ transport = <<>>
    /\ dump_cache = InitialDumpCache
    /\ caching \in {RunDaemonCache(a) : a \in CacheArgs}
    /\ now = Epoch
    /\ crashAt = "none"
    /\ extracted = <<>>
    /\ dispatched = <<>>
    /\ codec = NoCall
    /\ dev = NoDevice
    /\ remote = NoRemote
    /\ reader = NoReader
    /\ pings = NoPings

\* lines 77-79 for one client and one command
DispatchFrame ==
    /\ pc = "dispatch"
    /\ crashAt = "none"
    /\ Len(dispatched) < MaxDispatch
    /\ \E c \in Clients, command \in DispatchCommands :
          /\ \E o \in TransportOutcomes(command) :
                DispatchLines(c, command, inbuf[c], o[1], o[2])
          /\ extracted' = Append(extracted, [sock |-> c, command |-> command])
    /\ UNCHANGED <<connections, readable, writeable, envVars, received, delivered, caching, now>>
    /\ UNCHANGED <<codec, dev, remote, reader, pings>>

\* time passes
Tick ==
    /\ pc = "dispatch"
    /\ crashAt = "none"
    /\ now < Epoch + MaxTicks * TickSeconds
    /\ now' = now + TickSeconds
    /\ UNCHANGED <<pc, connections, inbuf, outbuf, readable, writeable, envVars,
                   received, delivered, serialVars, caching, crashAt, extracted>>
    /\ UNCHANGED <<codec, dev, remote, reader, pings>>

NextDispatch == DispatchFrame \/ Tick

SpecDispatch == InitDispatch /\ [][NextDispatch]_vars

(* ------------------------------------------------------------------ *)
(* The writeable phase of one iteration on its own (run lines 59-64 and  *)
(* write_client), started from what the readable phase leaves behind     *)
(* once replies are appended (line 78): outbound buffers that hold       *)
(* replies, entries deleted by a zero-byte read, and select's writeable  *)
(* list, taken before the readable phase ran.                            *)
(* ------------------------------------------------------------------ *)
\* The sublists of 1..n, in key order
Sublists(n) == {SelectSeq([i \in 1..n |-> i], LAMBDA c : c \in S) : S \in SUBSET (1..n)}

\* What line 78 leaves in an outbound buffer: nothing, the terminator of a
\* command without response, a response
BufferedReplies == {<<>>, <<TERMINATOR_BYTE>>, SearchReply}

InitWrite ==
    /\ pc = "writeable"
    /\ connections \in Sublists(MaxClients)
    /\ inbuf = [c \in Clients |-> <<>>]
    /\ outbuf \in [Clients -> BufferedReplies]
    /\ \A c \in Clients : ~InConnections(c) => outbuf[c] = <<>>
    /\ readable = <<>>
    /\ writeable \in Sublists(MaxClients)
    /\ sock = [c \in Clients |-> IF InConnections(c) THEN "open" ELSE "closed"]
    /\ rx = [c \in Clients |-> <<>>]
    /\ script = [c \in Clients |-> <<>>]
    /\ peerClosed = [c \in Clients |-> ~InConnections(c)]
    /\ received = [c \in Clients |-> <<>>]
    /\ delivered = [c \in Clients |-> <<>>]
    /\ transport = <<>>
    /\ dump_cache = InitialDumpCache
    /\ caching \in {RunDaemonCache(a) : a \in LoopCacheArgs}
    /\ now = Epoch
    /\ crashAt = "none"
    /\ extracted = <<>>
    /\ dispatched = <<>>
    /\ codec = NoCall
    /\ dev = NoDevice
    /\ remote = NoRemote
    /\ reader = NoReader
    /\ pings = NoPings

NextWrite == WriteClient \/ EndWriteable

SpecWrite == InitWrite /\ [][NextWrite]_vars

(* ------------------------------------------------------------------ *)
(* The codec on its own: each step calls one function of the codec       *)
(* (device.py, responses.py, connector.py) on arguments drawn from       *)
(* bounded sets and records the result. The functions keep no state, so  *)
(* one call per behaviour covers them. The daemon stays as it starts.    *)
(* ------------------------------------------------------------------ *)
daemonVars == <<pc, connections, inbuf, outbuf, readable, writeable, sock, rx, script,
                peerClosed, received, delivered, transport, dump_cache, caching, now,
                crashAt, extracted, dispatched>>

InitCodec ==
    /\ pc = "codec"
    /\ connections = <<>>
    /\ inbuf = [c \in Clients |-> <<>>]
    /\ outbuf = [c \in Clients |-> <<>>]
    /\ readable = <<>>
    /\ writeable = <<>>
    /\ sock = [c \in Clients |-> "free"]
    /\ rx = [c \in Clients |-> <<>>]
    /\ script = [c \in Clients |-> <<>>]
    /\ peerClosed = [c \in Clients |-> FALSE]
    /\ received = [c \in Clients |-> <<>>]
    /\ delivered = [c \in Clients |-> <<>>]
    /\ transport = <<>>
    /\ dump_cache = InitialDumpCache
    /\ caching = 0
    /\ now = Epoch
    /\ crashAt = "none"
    /\ extracted = <<>>
    /\ dispatched = <<>>
    /\ codec = NoCall
    /\ dev = NoDevice
    /\ remote = NoRemote
    /\ reader = NoReader
    /\ pings = NoPings

\* Device.__init__ asserts 0 <= device_id < 16
DeviceIds == 0..15

\* Function bytes: the five of FunctionBytes and the three that select a
\* response class in get_response
FunctionByteValues == {COMMAND, TRANSMIT, SEARCH, PING, DUMP, 0, 4, 16}

\* Payloads: every byte string over PayloadBytes of at most MaxPayload bytes
MaxPayload == 2
PayloadBytes == {0, 127}
Payloads == UNION {[1..n -> PayloadBytes] : n \in 0..MaxPayload}

\* A frame is built by Device.__do_call and handed, as received bytes, to
\* Connector.get_response
RoundTrip ==
    /\ pc = "codec"
    /\ codec = NoCall
    /\ \E id \in DeviceIds, fn \in FunctionByteValues, payload \in Payloads :
          LET frame == DoCallFrame(id, fn, payload)
              ok == GetResponseRaises(frame) = ""
          IN  codec' = [op |-> "roundtrip", id |-> id, fn |-> fn, payload |-> payload,
                        frame |-> frame, accepted |-> ok,
                        id_out |-> IF ok THEN SearchDeviceId(frame) ELSE -1,
                        fn_out |-> IF ok THEN At(frame, FUNCTION_BYTE) ELSE -1,
                        payload_out |-> IF ok THEN DecodedPayload(frame) ELSE <<>>]
    /\ UNCHANGED <<daemonVars, dev, remote, reader, pings>>

\* dump_lut.py: a descriptor is a plain int (a byte index) or a tuple
\* (byte index, bit index)
PlainByte(i) == [tuple |-> FALSE, byte |-> i, bit |-> 0]
BitOfByte(i, k) == [tuple |-> TRUE, byte |-> i, bit |-> k]

\* dump_lut["gain"], indexed by channel (SETUP = 0 has no descriptors)
dump_lut_gain ==
    << <<>>,
       <<PlainByte(146), BitOfByte(148, 5), BitOfByte(147, 0)>>,
       <<PlainByte(288), BitOfByte(292, 3), BitOfByte(289, 0)>>,
       <<PlainByte(430), BitOfByte(436, 1), BitOfByte(431, 0)>>,
       <<PlainByte(571), BitOfByte(572, 6), BitOfByte(573, 0)>>,
       <<PlainByte(713), BitOfByte(716, 4), BitOfByte(714, 0)>>,
       <<PlainByte(882), BitOfByte(884, 5), BitOfByte(883, 0)>>,
       <<PlainByte(1066), BitOfByte(1067, 6), BitOfByte(1068, 0)>>,
       <<PlainByte(1236), BitOfByte(1243, 0), BitOfByte(1237, 0)>>,
       <<PlainByte(1405), BitOfByte(1411, 1), BitOfByte(1406, 0)>>,
       <<PlainByte(1574), BitOfByte(1579, 2), BitOfByte(1575, 0)>> >>

\* channel.py: Channel, SETUP = 0, INPUT_A = 1 .. OUTPUT_6 = 10
Channels == 0..10

\* byte & (1 << bit)
MaskBit(byte, bit) == ((byte \div (2 ^ bit)) % 2) * (2 ^ bit)

\* line 157: shift = min(1, idx) * 7 + 1 * max(0, idx - 1)
SegmentShift(idx) == Min2(1, idx) * 7 + Max2(0, idx - 1)

\* lines 158-161 for the descriptor at index idx: a tuple adds
\* (dump[mapping[0]] & (1 << mapping[1])) << shift; a plain int is indexed
\* all the same (mapping[0]), which raises TypeError
SegmentRaises(mapping) == IF mapping.tuple THEN "" ELSE "TypeError"

SegmentValue(mapping, idx, dump) ==
    MaskBit(dump[mapping.byte], mapping.bit) * (2 ^ SegmentShift(idx))

RECURSIVE SumSegments(_, _, _)
SumSegments(descriptors, idx, dump) ==
    IF idx >= Len(descriptors) THEN 0
    ELSE SegmentValue(At(descriptors, idx), idx, dump)
         + SumSegments(descriptors, idx + 1, dump)

\* Device._parse_dump_with_lut for one parameter and one channel: the value
\* computed, or the exception raised on the way
ParseDumpField(descriptors, dump) ==
    IF \E i \in 1..Len(descriptors) : SegmentRaises(descriptors[i]) # ""
    THEN [raised |-> "TypeError", value |-> -1]
    ELSE [raised |-> "", value |-> SumSegments(descriptors, 0, dump)]

\* The bytes a dump holds at the three places of a field: a 7-bit byte, and
\* two bytes with the bit of their descriptor set or not, alone or with others
LowBytes == {0, 5, 127}

FlagBytes(bit) == {0, 2 ^ bit, 127, 127 - 2 ^ bit}

\* _parse_dump_with_lut meets the gain of one channel in a dump payload
ParseDump ==
    /\ pc = "codec"
    /\ codec = NoCall
    /\ \E channel \in Channels :
          /\ dump_lut_gain[channel + 1] # <<>>
          /\ LET ds == dump_lut_gain[channel + 1]
             IN  \E b1 \in LowBytes, b2 \in FlagBytes(ds[2].bit), b3 \in FlagBytes(ds[3].bit) :
                    LET dump == (ds[1].byte :> b1) @@ (ds[2].byte :> b2) @@ (ds[3].byte :> b3)
                        r == ParseDumpField(ds, dump)
                    IN  codec' = [op |-> "parse_dump", channel |-> channel,
                                  low7 |-> b1 % 128,
                                  bit8 |-> (b2 \div (2 ^ ds[2].bit)) % 2,
                                  bit9 |-> (b3 \div (2 ^ ds[3].bit)) % 2,
                                  raised |-> r.raised, value |-> r.value]
    /\ UNCHANGED <<daemonVars, dev, remote, reader, pings>>

\* A reply of n bytes with reply function f, device id byte id and byte s at
\* offset k, zero elsewhere; with or without the header
ReplyBytes(n, f, id, k, s, header) ==
    [i \in 1..n |->
        IF i <= 4 THEN (IF header THEN DCX_HEADER[i] ELSE 0)
        ELSE IF i = n THEN TERMINATOR_BYTE
        ELSE IF i = 5 THEN id
        ELSE IF i = 6 THEN SEPARATOR_BYTE
        ELSE IF i = 7 THEN f
        ELSE IF i = k + 1 THEN s
        ELSE 0]

\* Status bytes: level 5 with and without the limited bit, the bit alone,
\* nothing, all seven bits
StatusBytes == {0, 5, 32, 37, 127}

\* PingResponse(data) for replies of 24, 25 and 26 bytes
DecodePing ==
    /\ pc = "codec"
    /\ codec = NoCall
    /\ \E n \in 24..26, ch \in PingChannels, s \in StatusBytes, header \in BOOLEAN :
          LET data == ReplyBytes(n, 4, 0, 8 + ch, s, header)
              ok == PingResponseInitOk(data)
          IN  codec' = [op |-> "ping", data |-> data, channel |-> ch, status |-> s,
                        accepted |-> ok,
                        channels |-> IF ok THEN PingResponseChannels(data) ELSE <<>>]
    /\ UNCHANGED <<daemonVars, dev, remote, reader, pings>>

\* Device id bytes of a Search reply
SearchIdBytes == {0, 3, 15}

\* SearchResponse(data) for replies of 25, 26 and 27 bytes
DecodeSearch ==
    /\ pc = "codec"
    /\ codec = NoCall
    /\ \E n \in 25..27, id \in SearchIdBytes, s \in StatusBytes, header \in BOOLEAN :
          LET data == ReplyBytes(n, 0, id, 7, s, header)
              ok == SearchResponseInitOk(data)
          IN  codec' = [op |-> "search", data |-> data, accepted |-> ok,
                        device_id |-> IF ok THEN SearchDeviceId(data) ELSE -1,
                        shown_id |-> IF ok THEN ShownId(SearchDeviceId(data)) ELSE -1]
    /\ UNCHANGED <<daemonVars, dev, remote, reader, pings>>

\* Values of a command: 0..32767 and the neighbours on both sides
CommandValues == (-2)..(2 ^ 15 + 1)

\* The SETUP channel and OUTPUT_6; the parameters 0x02 (gain) and 0x4B
CommandChannels == {0, 10}
CommandParameters == {2, 75}

\* Device.__command(channel, parameter, value)
EncodeCommand ==
    /\ pc = "codec"
    /\ codec = NoCall
    /\ \E channel \in CommandChannels, parameter \in CommandParameters,
          value \in CommandValues :
          codec' = [op |-> "command", channel |-> channel, parameter |-> parameter,
                    value |-> value,
                    bytes |-> EncodeCommandBytes(channel, parameter, value)]
    /\ UNCHANGED <<daemonVars, dev, remote, reader, pings>>

\* Connector.handle_command(command) on a transport, for the commands of
\* DispatchCommands and whatever the transport does
ConnectorCall ==
    /\ pc = "codec"
    /\ codec = NoCall
    /\ \E command \in DispatchCommands :
          \E o \in TransportOutcomes(command) :
             codec' = [op |-> "handle_command", command |-> command, write |-> o[1],
                       r |-> ConnectorHandleCommand(command, o[1], o[2])]
    /\ UNCHANGED <<daemonVars, dev, remote, reader, pings>>

NextCodec ==
    \/ RoundTrip
    \/ ConnectorCall
    \/ EncodeCommand
    \/ DecodeSearch
    \/ DecodePing
    \/ ParseDump

SpecCodec == InitCodec /\ [][NextCodec]_vars

(* ------------------------------------------------------------------ *)
(* device.py: a Device and its command queue (self.__commands), with the *)
(* connector reduced to whether handle_command returns or raises.        *)
(* ------------------------------------------------------------------ *)
\* bytearray([n]) takes n in range(0, 256) and raises ValueError otherwise
ByteValues == 256

QueueAfterSendKept(commands) == commands

\* line 148: self.__commands.clear()
QueueAfterSend(commands) == <<>>

\* lines 145-146: data.extend(command) for each queued command, each the 4
\* bytes __command built
JoinCommands(commands) ==
    [i \in 1..(4 * Len(commands)) |-> commands[((i - 1) \div 4) + 1][((i - 1) % 4) + 1]]

\* Device.send() with the queue as given; transportOk: handle_command returns.
\* commands: the queue afterwards; frames: what was handed to the connector.
DeviceSend(device_id, commands, transportOk) ==
    IF Len(commands) = 0
    THEN [commands |-> commands, frames |-> <<>>, raised |-> ""]
    ELSE IF Len(commands) >= ByteValues
    THEN [commands |-> commands, frames |-> <<>>, raised |-> "ValueError"]
    ELSE LET frame == DoCallFrame(device_id, COMMAND, <<Len(commands)>> \o JoinCommands(commands))
         IN  IF transportOk
             THEN [commands |-> QueueAfterSend(commands), frames |-> <<frame>>, raised |-> ""]
             ELSE [commands |-> commands, frames |-> <<frame>>,
                   raised |-> "DCXSerialException"]

\* Device._invoke(parameter, channel, value), cmd the bytes __command built
DeviceInvoke(device_id, batch_mode, commands, cmd, transportOk) ==
    IF batch_mode
    THEN [commands |-> Append(commands, cmd), frames |-> <<>>, raised |-> ""]
    ELSE DeviceSend(device_id, Append(commands, cmd), transportOk)

\* The commands invoked: the gain of INPUT_A (0x02) set to 150, mute_outputs (0x15)
InvokedCommands == {EncodeCommandBytes(1, 2, 150), EncodeCommandBytes(0, 21, 1)}

\* Calls made on a Device in one behaviour
MaxCalls == 3

\* A queue of commands invoked earlier in batch mode and not yet sent
Backlog == 254

InitDevice ==
    /\ pc = "device"
    /\ connections = <<>>
    /\ inbuf = [c \in Clients |-> <<>>]
    /\ outbuf = [c \in Clients |-> <<>>]
    /\ readable = <<>>
    /\ writeable = <<>>
    /\ sock = [c \in Clients |-> "free"]
    /\ rx = [c \in Clients |-> <<>>]
    /\ script = [c \in Clients |-> <<>>]
    /\ peerClosed = [c \in Clients |-> FALSE]
    /\ received = [c \in Clients |-> <<>>]
    /\ delivered = [c \in Clients |-> <<>>]
    /\ transport = <<>>
    /\ dump_cache = InitialDumpCache
    /\ caching = 0
    /\ now = Epoch
    /\ crashAt = "none"
    /\ extracted = <<>>
    /\ dispatched = <<>>
    /\ codec = NoCall
    /\ remote = NoRemote
    /\ reader = NoReader
    /\ pings = NoPings
    /\ \E batch_mode \in BOOLEAN, backlog \in {0, Backlog} :
          /\ backlog > 0 => batch_mode
          /\ dev = [batch_mode |-> batch_mode, device_id |-> 0, calls |-> 0,
                    commands |-> [i \in 1..backlog |-> EncodeCommandBytes(1, 2, 150)],
                    last |-> NoCall]

\* a parameter command is invoked
Invoke ==
    /\ pc = "device"
    /\ dev.calls < MaxCalls
    /\ \E cmd \in InvokedCommands, transportOk \in BOOLEAN :
          LET r == DeviceInvoke(dev.device_id, dev.batch_mode, dev.commands, cmd, transportOk)
          IN  /\ dev.batch_mode => transportOk
              /\ dev' = [dev EXCEPT !.commands = r.commands, !.calls = @ + 1,
                            !.last = [op |-> "invoke", cmd |-> cmd, before |-> dev.commands,
                                      transportOk |-> transportOk,
                                      frames |-> r.frames, raised |-> r.raised]]
    /\ UNCHANGED <<daemonVars, codec, remote, reader, pings>>

\* send() is called
Send ==
    /\ pc = "device"
    /\ dev.calls < MaxCalls
    /\ \E transportOk \in BOOLEAN :
          LET r == DeviceSend(dev.device_id, dev.commands, transportOk)
          IN  dev' = [dev EXCEPT !.commands = r.commands, !.calls = @ + 1,
                        !.last = [op |-> "send", cmd |-> <<>>, before |-> dev.commands,
                                  transportOk |-> transportOk,
                                  frames |-> r.frames, raised |-> r.raised]]
    /\ UNCHANGED <<daemonVars, codec, remote, reader, pings>>

NextDevice == Invoke \/ Send

SpecDevice == InitDevice /\ [][NextDevice]_vars

(* ------------------------------------------------------------------ *)
(* connector.py: a client that talks to the daemon through               *)
(* DaemonConnector. The daemon is reduced to what read_client lines      *)
(* 77-78 send back for a command: the device's response, or the single   *)
(* terminator for a command without response. (In Spec line 76 raises    *)
(* before line 77 is reached and the client gets nothing back.)          *)
(* ------------------------------------------------------------------ *)
\* What the device answers to a command, well-formed
DeviceReply(command) ==
    IF At(command, FUNCTION_BYTE) = SEARCH THEN SearchReply
    ELSE IF At(command, FUNCTION_BYTE) = PING THEN PingReply
    ELSE IF At(command, FUNCTION_BYTE) = DUMP THEN DumpReply(At(command, FUNCTION_BYTE + 3) % 2)
    ELSE <<>>

\* daemon.py lines 77-78: resp = handle_command(command), then
\* resp.data if resp else the terminator goes to the client
DaemonReplyTo(command) ==
    LET r == HandleCommand(0, InitialDumpCache, Epoch, command, "ok", DeviceReply(command))
    IN  IF r.resp # None THEN r.resp ELSE <<TERMINATOR_BYTE>>

\* DaemonConnector.read_response: self.sock.recv(256)
RecvChunk == 256

\* The frames the client sends
RemoteCommands ==
    {TransmitFrame, DoCallFrame(0, COMMAND, <<1, 1, 2, 1, 22>>), SearchFrame, PingFrame}

\* Calls of handle_command the client makes in one behaviour
MaxRemoteCalls == 3

InitRemote ==
    /\ pc = "remote"
    /\ connections = <<>>
    /\ inbuf = [c \in Clients |-> <<>>]
    /\ outbuf = [c \in Clients |-> <<>>]
    /\ readable = <<>>
    /\ writeable = <<>>
    /\ sock = [c \in Clients |-> "free"]
    /\ rx = [c \in Clients |-> <<>>]
    /\ script = [c \in Clients |-> <<>>]
    /\ peerClosed = [c \in Clients |-> FALSE]
    /\ received = [c \in Clients |-> <<>>]
    /\ delivered = [c \in Clients |-> <<>>]
    /\ transport = <<>>
    /\ dump_cache = InitialDumpCache
    /\ caching = 0
    /\ now = Epoch
    /\ crashAt = "none"
    /\ extracted = <<>>
    /\ dispatched = <<>>
    /\ codec = NoCall
    /\ dev = NoDevice
    /\ remote = [state |-> "idle", sockbuf |-> <<>>, pending |-> <<>>, data |-> <<>>,
                 calls |-> <<>>]
    /\ reader = NoReader
    /\ pings = NoPings

\* Connector.handle_command(command) on a DaemonConnector: write_command
\* sends the frame; for a function of HAVE_RESPONSE get_response follows,
\* otherwise the call returns None at once
RemoteCall ==
    /\ pc = "remote"
    /\ remote.state = "idle"
    /\ Len(remote.calls) < MaxRemoteCalls
    /\ \E command \in RemoteCommands :
          LET reads == At(command, FUNCTION_BYTE) \in HAVE_RESPONSE
          IN  remote' = [remote EXCEPT
                 !.state = IF reads THEN "reading" ELSE "idle",
                 !.data = <<>>,
                 !.pending = Append(@, Len(remote.calls) + 1),
                 !.calls = Append(@, [command |-> command, reads |-> reads,
                                      done |-> ~reads, reply |-> <<>>,
                                      returned |-> None, raised |-> ""])]
    /\ UNCHANGED <<daemonVars, codec, dev, reader, pings>>

\* The daemon has dispatched the oldest command it holds and its reply
\* arrives at the client's socket
DaemonAnswers ==
    /\ pc = "remote"
    /\ remote.pending # <<>>
    /\ LET i == Head(remote.pending)
           reply == DaemonReplyTo(remote.calls[i].command)
       IN  remote' = [remote EXCEPT
              !.pending = Tail(@),
              !.sockbuf = @ \o reply,
              !.calls[i].reply = reply]
    /\ UNCHANGED <<daemonVars, codec, dev, reader, pings>>

\* DaemonConnector.read_response, one turn of its loop: recv returns some of
\* the bytes that arrived (one byte, or all of them up to 256); the loop
\* ends with the first chunk that holds the terminator, and get_response
\* builds the Response from what was gathered
RemoteRecv ==
    /\ pc = "remote"
    /\ remote.state = "reading"
    /\ remote.sockbuf # <<>>
    /\ \E n \in {1, Min2(RecvChunk, Len(remote.sockbuf))} :
          LET buf == PySlice(remote.sockbuf, 0, n)
              data == remote.data \o buf
              i == Len(remote.calls)
          IN  IF Contains(buf, TERMINATOR_BYTE)
              THEN remote' = [remote EXCEPT
                      !.state = "idle",
                      !.sockbuf = PySlice(@, n, Len(@)),
                      !.data = data,
                      !.calls[i].done = TRUE,
                      !.calls[i].raised = GetResponseRaises(data),
                      !.calls[i].returned =
                          IF GetResponseRaises(data) = "" THEN data ELSE None]
              ELSE remote' = [remote EXCEPT
                      !.sockbuf = PySlice(@, n, Len(@)),
                      !.data = data]
    /\ UNCHANGED <<daemonVars, codec, dev, reader, pings>>

NextRemote == RemoteCall \/ DaemonAnswers \/ RemoteRecv

SpecRemote == InitRemote /\ [][NextRemote]_vars

(* ------------------------------------------------------------------ *)
(* device.py: the frames a Device hands to its connector, for every      *)
(* public call that sends one, and what the daemon's frame extraction    *)
(* (read_client lines 73-75) cuts out of such a frame.                   *)
(* ------------------------------------------------------------------ *)
\* TransmitMode: RECEIVE, TRANSMIT, TRANSCEIVE
TransmitModes == {4, 8, 12}

\* Device.search_device, transmit_mode(mode), ping and dump(part): the
\* frame __do_call builds
SearchDeviceFrame == DoCallFrame(32, SEARCH, <<>>)
TransmitModeFrame(device_id, mode) == DoCallFrame(device_id, TRANSMIT, <<mode, 0>>)
DevicePingFrame(device_id) == DoCallFrame(device_id, PING, <<0, 0>>)
DeviceDumpFrame(device_id, part) == DoCallFrame(device_id, DUMP, <<1, 0, part>>)

DeviceCallFrames(device_id) ==
    {SearchDeviceFrame, DevicePingFrame(device_id)}
       \cup {TransmitModeFrame(device_id, mode) : mode \in TransmitModes}
       \cup {DeviceDumpFrame(device_id, part) : part \in 0..1}

\* The parameter commands invoked: the gain of INPUT_A at both ends of its
\* range (0 and 300), mute_outputs, the largest value of 15 bits, and a
\* value whose bits 7 and above are those of the terminator byte
WireCommands ==
    {EncodeCommandBytes(1, 2, 0), EncodeCommandBytes(1, 2, 300),
     EncodeCommandBytes(0, 21, 1), EncodeCommandBytes(1, 2, 2 ^ 15 - 1),
     EncodeCommandBytes(1, 2, TERMINATOR_BYTE * 2 ^ 7)}

\* Queues of commands invoked earlier in batch mode and not yet sent: none,
\* or one command less than the value of the terminator byte
WireBacklogs == {0, TERMINATOR_BYTE - 1}

InitWire ==
    /\ pc = "wire"
    /\ connections = <<>>
    /\ inbuf = [c \in Clients |-> <<>>]
    /\ outbuf = [c \in Clients |-> <<>>]
    /\ readable = <<>>
    /\ writeable = <<>>
    /\ sock = [c \in Clients |-> "free"]
    /\ rx = [c \in Clients |-> <<>>]
    /\ script = [c \in Clients |-> <<>>]
    /\ peerClosed = [c \in Clients |-> FALSE]
    /\ received = [c \in Clients |-> <<>>]
    /\ delivered = [c \in Clients |-> <<>>]
    /\ transport = <<>>
    /\ dump_cache = InitialDumpCache
    /\ caching = 0
    /\ now = Epoch
    /\ crashAt = "none"
    /\ extracted = <<>>
    /\ dispatched = <<>>
    /\ codec = NoCall
    /\ remote = NoRemote
    /\ reader = NoReader
    /\ pings = NoPings
    /\ \E batch_mode \in BOOLEAN, backlog \in WireBacklogs, device_id \in {0, 15} :
          /\ backlog > 0 => batch_mode
          /\ dev = [batch_mode |-> batch_mode, device_id |-> device_id, calls |-> 0,
                    commands |-> [i \in 1..backlog |-> EncodeCommandBytes(1, 2, 150)],
                    last |-> NoCall]

\* a parameter command is invoked
WireInvoke ==
    /\ pc = "wire"
    /\ dev.calls < MaxCalls
    /\ \E cmd \in WireCommands :
          LET r == DeviceInvoke(dev.device_id, dev.batch_mode, dev.commands, cmd, TRUE)
          IN  dev' = [dev EXCEPT !.commands = r.commands, !.calls = @ + 1,
                        !.last = [op |-> "invoke", cmd |-> cmd, before |-> dev.commands,
                                  transportOk |-> TRUE,
                                  frames |-> r.frames, raised |-> r.raised]]
    /\ UNCHANGED <<daemonVars, codec, remote, reader, pings>>

\* send() is called
WireSend ==
    /\ pc = "wire"
    /\ dev.calls < MaxCalls
    /\ LET r == DeviceSend(dev.device_id, dev.commands, TRUE)
       IN  dev' = [dev EXCEPT !.commands = r.commands, !.calls = @ + 1,
                     !.last = [op |-> "send", cmd |-> <<>>, before |-> dev.commands,
                               transportOk |-> TRUE,
                               frames |-> r.frames, raised |-> r.raised]]
    /\ UNCHANGED <<daemonVars, codec, remote, reader, pings>>

\* search_device(), transmit_mode(mode), ping() or dump(part) is called
WireCall ==
    /\ pc = "wire"
    /\ dev.calls < MaxCalls
    /\ \E frame \in DeviceCallFrames(dev.device_id) :
          dev' = [dev EXCEPT !.calls = @ + 1,
                     !.last = [op |-> "call", cmd |-> <<>>, before |-> dev.commands,
                               transportOk |-> TRUE,
                               frames |-> <<frame>>, raised |-> ""]]
    /\ UNCHANGED <<daemonVars, codec, remote, reader, pings>>

NextWire == WireInvoke \/ WireSend \/ WireCall

SpecWire == InitWire /\ [][NextWire]_vars

(* ------------------------------------------------------------------ *)
(* responses.py: the PingResponse objects a client decodes one after     *)
(* the other (Device.ping returns each to its caller).                   *)
(* ------------------------------------------------------------------ *)
\* Ping responses decoded in one behaviour
MaxPings == 3

\* channels: dict[Channel, _PingData] = {} in the class body: one dict,
\* made when the class is, and what self.channels is for every object
\* (__init__ stores into it by key and never binds self.channels)
PingResponseClassChannels == <<>>

\* self.channels[Channel(channel)] = ... for each channel of range(INPUT_A,
\* OUTPUT_6 + 1): the dict with those keys set anew
ChannelsStored(channels, data) ==
    [ch \in (DOMAIN channels) \cup PingChannels |->
        IF ch \in PingChannels THEN PingData(At(data, 8 + ch)) ELSE channels[ch]]

\* response.channels of the i-th object built: the class's dict
ChannelsOf(i) == pings.channels

InitPing ==
    /\ pc = "ping"
    /\ connections = <<>>
    /\ inbuf = [c \in Clients |-> <<>>]
    /\ outbuf = [c \in Clients |-> <<>>]
    /\ readable = <<>>
    /\ writeable = <<>>
    /\ sock = [c \in Clients |-> "free"]
    /\ rx = [c \in Clients |-> <<>>]
    /\ script = [c \in Clients |-> <<>>]
    /\ peerClosed = [c \in Clients |-> FALSE]
    /\ received = [c \in Clients |-> <<>>]
    /\ delivered = [c \in Clients |-> <<>>]
    /\ transport = <<>>
    /\ dump_cache = InitialDumpCache
    /\ caching = 0
    /\ now = Epoch
    /\ crashAt = "none"
    /\ extracted = <<>>
    /\ dispatched = <<>>
    /\ codec = NoCall
    /\ dev = NoDevice
    /\ remote = NoRemote
    /\ reader = NoReader
    /\ pings = [state |-> "decoding", channels |-> PingResponseClassChannels,
                objects |-> <<>>]

\* PingResponse(data) for a reply of 25 or 26 bytes; decoded is what the
\* new object's channels hold when the constructor returns
BuildPingResponse ==
    /\ pc = "ping"
    /\ Len(pings.objects) < MaxPings
    /\ \E n \in 25..26, ch \in {1, 10}, status \in StatusBytes :
          LET data == ReplyBytes(n, 4, 0, 8 + ch, status, TRUE)
          IN  IF PingResponseInitOk(data)
              THEN pings' = [pings EXCEPT
                      !.channels = ChannelsStored(@, data),
                      !.objects = Append(@, [data |-> data, raised |-> "",
                                             decoded |-> ChannelsStored(pings.channels, data)])]
              ELSE pings' = [pings EXCEPT
                      !.objects = Append(@, [data |-> data, raised |-> "AssertionError",
                                             decoded |-> <<>>])]
    /\ UNCHANGED <<daemonVars, codec, dev, remote, reader>>

NextPing == BuildPingResponse

SpecPing == InitPing /\ [][NextPing]_vars

(* ------------------------------------------------------------------ *)
(* connector.py: one call of read_response on either connector, over a   *)
(* stream that holds a terminator or ends without one.                   *)
(* ------------------------------------------------------------------ *)
\* Longest stream the peer sends during one call
MaxStream == 3

\* The bytes of a stream: the terminator and one other byte
StreamBytes == {0, TERMINATOR_BYTE}

Streams == UNION {[1..n -> StreamBytes] : n \in 0..MaxStream}

\* self.serial.read(1) of a port opened without a timeout
\* (serial.Serial(serial_port, baudrate=38400)): the next byte, waiting
\* for it as long as none has arrived
SerialRead1(rest) ==
    IF rest # <<>> THEN {<<Head(rest)>>} ELSE {}

\* self.sock.recv(256) of a blocking socket: some of the bytes that
\* arrived (one, or all of them up to 256), the empty byte string once
\* the peer has closed and nothing is left, waiting otherwise
SockRecv(rest, ends) ==
    IF rest # <<>>
    THEN {PySlice(rest, 0, n) : n \in {1, Min2(RecvChunk, Len(rest))}}
    ELSE IF ends = "closed" THEN {<<>>} ELSE {}

\* A serial line has no end of stream, it only falls silent; the daemon's
\* socket is closed by the daemon, or stays open after a terminator
InitRead ==
    /\ pc = "read"
    /\ connections = <<>>
    /\ inbuf = [c \in Clients |-> <<>>]
    /\ outbuf = [c \in Clients |-> <<>>]
    /\ readable = <<>>
    /\ writeable = <<>>
    /\ sock = [c \in Clients |-> "free"]
    /\ rx = [c \in Clients |-> <<>>]
    /\ script = [c \in Clients |-> <<>>]
    /\ peerClosed = [c \in Clients |-> FALSE]
    /\ received = [c \in Clients |-> <<>>]
    /\ delivered = [c \in Clients |-> <<>>]
    /\ transport = <<>>
    /\ dump_cache = InitialDumpCache
    /\ caching = 0
    /\ now = Epoch
    /\ crashAt = "none"
    /\ extracted = <<>>
    /\ dispatched = <<>>
    /\ codec = NoCall
    /\ dev = NoDevice
    /\ remote = NoRemote
    /\ pings = NoPings
    /\ \E stream \in Streams, transportKind \in {"serial", "socket"},
          ends \in {"silent", "closed"} :
          /\ transportKind = "serial" => ends = "silent"
          /\ (transportKind = "socket" /\ ends = "silent") =>
                 Contains(stream, TERMINATOR_BYTE)
          /\ reader = [state |-> "reading", transport |-> transportKind,
                       stream |-> stream, ends |-> ends, rest |-> stream,
                       data |-> <<>>, chunks |-> <<>>]

\* SerialConnector.read_response, one turn of its loop
SerialReadResponseTurn ==
    /\ pc = "read"
    /\ reader.state = "reading"
    /\ reader.transport = "serial"
    /\ \E c \in SerialRead1(reader.rest) :
          IF c # <<>>
          THEN reader' = [reader EXCEPT
                  !.rest = PySlice(@, Len(c), Len(@)),
                  !.data = @ \o c,
                  !.chunks = Append(@, c),
                  !.state = IF PySlice(reader.data \o c, -1, Len(reader.data \o c))
                                  = <<TERMINATOR_BYTE>>
                            THEN "returned" ELSE "reading"]
          ELSE reader' = [reader EXCEPT !.chunks = Append(@, c), !.state = "returned"]
    /\ UNCHANGED <<daemonVars, codec, dev, remote, pings>>

\* DaemonConnector.read_response, one turn of its loop: an empty buf
\* changes nothing and the loop goes on
DaemonReadResponseTurn ==
    /\ pc = "read"
    /\ reader.state = "reading"
    /\ reader.transport = "socket"
    /\ \E buf \in SockRecv(reader.rest, reader.ends) :
          IF buf # <<>>
          THEN reader' = [reader EXCEPT
                  !.rest = PySlice(@, Len(buf), Len(@)),
                  !.data = @ \o buf,
                  !.chunks = Append(@, buf),
                  !.state = IF Contains(buf, TERMINATOR_BYTE)
                            THEN "returned" ELSE "reading"]
          ELSE reader' = [reader EXCEPT
                  !.chunks = IF @ # <<>> /\ @[Len(@)] = <<>> THEN @ ELSE Append(@, buf)]
    /\ UNCHANGED <<daemonVars, codec, dev, remote, pings>>

NextRead == SerialReadResponseTurn \/ DaemonReadResponseTurn

\* Each loop runs on its own thread of control and takes its next turn
\* whenever the read it waits for can return
SpecRead ==
    /\ InitRead
    /\ [][NextRead]_vars
    /\ WF_vars(SerialReadResponseTurn)
    /\ WF_vars(DaemonReadResponseTurn)

(* ------------------------------------------------------------------ *)
(* Helpers of the statements below                                       *)
(* ------------------------------------------------------------------ *)
\* The functions the device answers (SEARCH, PING and DUMP of the protocol)
AnsweredFunctions == {SEARCH, PING, DUMP}

Answered(command) ==
    Len(command) > FUNCTION_BYTE /\ At(command, FUNCTION_BYTE) \in AnsweredFunctions

\* The calls of handle_command made for socket c, and the frames cut out for it
CallsOf(c) == SelectSeq(dispatched, LAMBDA d : d.sock = c)
FramesOf(c) == SelectSeq(extracted, LAMBDA e : e.sock = c)

\* The serial round trip of a call went through: the whole command written
\* and, for an answered function, a well-formed response read
RoundTripOk(d) ==
    /\ d.events # <<>>
    /\ d.events[1].written = Len(d.command)
    /\ Answered(d.command) =>
         Len(d.events) = 2 /\ GetResponseRaises(d.events[2].data) = ""

\* A DUMP request for part 0 or 1
IsDumpRequest(command) ==
    /\ Len(command) > FUNCTION_BYTE + 3
    /\ At(command, FUNCTION_BYTE) = DUMP
    /\ At(command, FUNCTION_BYTE + 3) \in {0, 1}

\* The reply a command is due: its response, or the terminator alone
ExpectedReply(d) == IF Answered(d.command) THEN d.resp ELSE <<TERMINATOR_BYTE>>

\* line 78: what is appended to the outbound buffer for a returned value
ReplyAppended(d) == IF d.resp # None THEN d.resp ELSE <<TERMINATOR_BYTE>>

\* Device: the call l queued its command behind the others and sent nothing
QueuedNotSent(l) ==
    /\ l.frames = <<>>
    /\ Len(l.cmd) = 4
    /\ dev.commands = l.before \o <<l.cmd>>

\* Device: the call l handed exactly one COMMAND frame to the connector, the
\* count byte and then the commands of queue in order, and the queue is empty
OneFrameSent(l, queue) ==
    /\ Len(l.frames) = 1
    /\ Len(l.frames[1]) = 9 + 4 * Len(queue)
    /\ PySlice(l.frames[1], 0, 8) =
          DCX_HEADER \o <<dev.device_id, SEPARATOR_BYTE, COMMAND, Len(queue)>>
    /\ \A k \in 1..Len(queue) : PySlice(l.frames[1], 4 + 4 * k, 8 + 4 * k) = queue[k]
    /\ At(l.frames[1], Len(l.frames[1]) - 1) = TERMINATOR_BYTE
    /\ dev.commands = <<>>

\* the terminator byte is the last byte of frame and occurs nowhere else
TerminatorOnlyLast(frame) ==
    /\ frame # <<>>
    /\ \A i \in 1..Len(frame) : (frame[i] = TERMINATOR_BYTE) <=> (i = Len(frame))

\* read_client, lines 73-75, with frame alone in the inbound buffer: the
\* command cut out is the frame
ExtractedWhole(frame) ==
    HasFrame(frame) /\ CutCommand(frame) = frame

\* read_response has returned with the first chunk that holds the
\* terminator, or (serial) with the first empty read
ReturnedAtFirstEnd ==
    LET n == Len(reader.chunks)
    IN  /\ n > 0
        /\ \A i \in 1..(n - 1) :
              reader.chunks[i] # <<>> /\ ~Contains(reader.chunks[i], TERMINATOR_BYTE)
        /\ \/ Contains(reader.chunks[n], TERMINATOR_BYTE)
           \/ reader.transport = "serial" /\ reader.chunks[n] = <<>>
        /\ reader.data = Flatten(reader.chunks)

(* ------------------------------------------------------------------ *)
(* C1: at most one command is in flight on the serial line: the line's   *)
(* history is the calls' round trips one after the other, each command   *)
(* written whole in a single write, and the response of an answered      *)
(* command read before the next command (of any client) is written.      *)
(* ------------------------------------------------------------------ *)
C1_OneCommandInFlight ==
    /\ transport = Flatten([j \in 1..Len(dispatched) |-> dispatched[j].events])
    /\ \A j \in 1..Len(dispatched) :
          /\ Len(dispatched[j].events) <= 2
          /\ \A k \in 1..Len(dispatched[j].events) :
                (dispatched[j].events[k].op = "write") = (k = 1)
          /\ dispatched[j].events # <<>> =>
                dispatched[j].events[1].data = dispatched[j].command
    /\ \A i \in 1..(Len(transport) - 1) :
          transport[i].op = "write" =>
             /\ transport[i].written = Len(transport[i].data)
             /\ Answered(transport[i].data) => transport[i + 1].op = "read"

\* Two clients' commands went over the line, the first of them answered
C1_Witness ==
    \E i, j \in 1..Len(dispatched) :
       /\ i < j
       /\ dispatched[i].sock # dispatched[j].sock
       /\ Answered(dispatched[i].command)
       /\ RoundTripOk(dispatched[i])
       /\ dispatched[j].events # <<>>

(* ------------------------------------------------------------------ *)
(* C2: with caching enabled, a DUMP request for part p that finds slot p *)
(* fresh (fetched less than the time-to-live ago) is answered from the   *)
(* slot without a round trip; one that finds the slot empty or stale     *)
(* makes exactly one round trip, stores the fresh response with the      *)
(* current time in slot p and returns it.                                *)
(* ------------------------------------------------------------------ *)
C2_DumpServedThroughCache ==
    \A j \in 1..Len(dispatched) :
       LET d == dispatched[j]
           p == At(d.command, FUNCTION_BYTE + 3)
           fresh == d.cacheBefore[p][1] > d.at - caching
       IN  (caching # 0 /\ IsDumpRequest(d.command)) =>
              IF fresh
              THEN /\ d.events = <<>>
                   /\ d.raised = ""
                   /\ d.resp = d.cacheBefore[p][2]
              ELSE /\ Len(SelectSeq(d.events, LAMBDA e : e.op = "write")) = 1
                   /\ RoundTripOk(d) =>
                        /\ d.raised = ""
                        /\ d.resp = d.events[2].data
                        /\ d.cacheAfter[p] = <<d.at, d.resp>>

(* ------------------------------------------------------------------ *)
(* C3: every complete frame cut out of a client's inbound buffer gives   *)
(* exactly one reply, appended to the outbound buffer of that client and *)
(* of no other: the response bytes for an answered command, otherwise    *)
(* the single terminator byte.                                           *)
(* ------------------------------------------------------------------ *)
C3_OneReplyPerFrame ==
    \A c \in Clients :
       /\ Len(CallsOf(c)) = Len(FramesOf(c))
       /\ \A i \in 1..Len(CallsOf(c)) : CallsOf(c)[i].raised = ""
       /\ InConnections(c) =>
             delivered[c] \o outbuf[c] =
                Flatten([i \in 1..Len(CallsOf(c)) |-> ExpectedReply(CallsOf(c)[i])])

(* ------------------------------------------------------------------ *)
(* C4: frames that arrive split or coalesced are each dispatched once:   *)
(* a frame cut out ends at the first terminator at offset 7 or later,    *)
(* and every byte after it stays in the inbound buffer, so what a client *)
(* sent is the frames cut out followed by the buffer.                    *)
(* ------------------------------------------------------------------ *)
C4_RestStaysBuffered ==
    \A c \in Clients :
       InConnections(c) =>
          /\ \A i \in 1..Len(FramesOf(c)) :
                LET f == FramesOf(c)[i].command
                IN  Len(f) >= 8 /\ Find(f, TERMINATOR_BYTE, 7) = Len(f) - 1
          /\ received[c] =
                Flatten([i \in 1..Len(FramesOf(c)) |-> FramesOf(c)[i].command])
                \o inbuf[c]

C6_LoopSurvivesEndOfStream ==
    \A c \in Clients :
       sock[c] = "closed" => (~InConnections(c) /\ crashAt # "run:64")

(* ------------------------------------------------------------------ *)
(* C7: when the serial round trip of a client's frame fails (fewer bytes *)
(* written than asked, or an I/O error), only that client is dropped:    *)
(* the loop goes on and the other clients keep their entries.            *)
(* ------------------------------------------------------------------ *)
C7_TransportFailureIsLocal ==
    \A j \in 1..Len(dispatched) :
       dispatched[j].raised \in {"DCXSerialException", "SerialException"} =>
          /\ crashAt = "none"
          /\ ~InConnections(dispatched[j].sock)
          /\ \A c \in Clients \ {dispatched[j].sock} : InConnections(c)

(* ------------------------------------------------------------------ *)
(* C8: when the device's reply is malformed, the originating client      *)
(* still gets bytes (the ones read, or the terminator) appended to its   *)
(* outbound buffer, and the loop and the other clients go on.            *)
(* ------------------------------------------------------------------ *)
C8_MalformedReplyIsLocal ==
    \A j \in 1..Len(dispatched) :
       LET d == dispatched[j]
       IN  (Len(d.events) = 2 /\ GetResponseRaises(d.events[2].data) # "") =>
              /\ crashAt = "none"
              /\ InConnections(d.sock) => delivered[d.sock] \o outbuf[d.sock] # <<>>
              /\ \A c \in Clients \ {d.sock} : InConnections(c)

(* ------------------------------------------------------------------ *)
(* C9: the frames of one client reach the Transport in the order the     *)
(* client sent them, and their replies are appended to its outbound      *)
(* buffer in that order.                                                 *)
(* ------------------------------------------------------------------ *)
C9_PerClientOrder ==
    \A c \in Clients :
       LET written == SelectSeq(CallsOf(c), LAMBDA d : d.events # <<>>)
       IN  /\ [i \in 1..Len(written) |-> written[i].events[1].data] =
              [i \in 1..Len(FramesOf(c)) |-> FramesOf(c)[i].command]
           /\ InConnections(c) =>
                 delivered[c] \o outbuf[c] =
                    Flatten([i \in 1..Len(written) |-> ReplyAppended(written[i])])

(* ------------------------------------------------------------------ *)
(* C10: a frame whose function is not DUMP is written to the Transport   *)
(* and neither reads nor changes a cache slot, with caching on or off;   *)
(* with caching off every frame, DUMP too, is written to the Transport   *)
(* and the cache stays as it started.                                    *)
(* ------------------------------------------------------------------ *)
C10_NonDumpBypassesCache ==
    /\ \A j \in 1..Len(dispatched) :
          LET d == dispatched[j]
              sent == d.events # <<>> /\ d.events[1].op = "write"
                      /\ d.events[1].data = d.command
          IN  /\ (Len(d.command) > FUNCTION_BYTE /\ At(d.command, FUNCTION_BYTE) # DUMP) =>
                    (sent /\ d.lookups = {} /\ d.cacheAfter = d.cacheBefore)
              /\ caching = 0 =>
                    (sent /\ d.lookups = {} /\ d.cacheAfter = InitialDumpCache)
    /\ caching = 0 => dump_cache = InitialDumpCache

\* with caching on, a frame that is not a DUMP made its round trip
C10_Witness ==
    \E j \in 1..Len(dispatched) :
       /\ caching # 0
       /\ dispatched[j].command = PingFrame
       /\ RoundTripOk(dispatched[j])
       /\ dispatched[j].raised = ""

(* ------------------------------------------------------------------ *)
(* C11: the two cache slots are independent and keyed by the part of the *)
(* request: a DUMP request for part p reads slot p only, is answered     *)
(* from the cache only with what slot p holds, and leaves the other slot *)
(* as it was; slot p itself stays as it was or takes the response of the *)
(* round trip made for this request, so that a response fetched for one  *)
(* part is not returned for a request for the other part.                *)
(* ------------------------------------------------------------------ *)
C11_SlotsIndependent ==
    \A j \in 1..Len(dispatched) :
       LET d == dispatched[j]
           p == At(d.command, FUNCTION_BYTE + 3)
       IN  (caching # 0 /\ IsDumpRequest(d.command)) =>
              /\ d.lookups = {p}
              /\ d.cacheAfter[1 - p] = d.cacheBefore[1 - p]
              /\ (d.raised = "" /\ d.events = <<>>) => d.resp = d.cacheBefore[p][2]
              /\ \/ d.cacheAfter[p] = d.cacheBefore[p]
                 \/ /\ RoundTripOk(d)
                    /\ d.cacheAfter[p] = <<d.at, d.events[2].data>>

\* with caching on, a request for part 0 and then one for part 1 were each
\* answered from the cache
C11_Witness ==
    /\ caching # 0
    /\ \E i, j \in 1..Len(dispatched) :
          /\ i < j
          /\ dispatched[i].command = DumpFrame(0)
          /\ dispatched[j].command = DumpFrame(1)
          /\ dispatched[i].events = <<>> /\ dispatched[i].raised = ""
          /\ dispatched[j].events = <<>> /\ dispatched[j].raised = ""

(* ------------------------------------------------------------------ *)
(* C12: every socket reported writable whose outbound buffer holds       *)
(* something gets its flush attempted in that iteration: once the        *)
(* writeable phase is over, none is left waiting in the list. A flush    *)
(* that succeeded has handed the whole buffer to the peer and left the   *)
(* buffer empty; a flush that failed has removed the client's entry and  *)
(* closed its socket.                                                    *)
(* ------------------------------------------------------------------ *)
C12_WritableBufferFlushed ==
    /\ pc # "writeable" =>
          \A i \in 1..Len(writeable) :
             ~(InConnections(writeable[i]) /\ outbuf[writeable[i]] # <<>>)
    /\ \A c \in Clients :
          /\ delivered[c] # <<>> => (outbuf[c] = <<>> /\ InConnections(c))
          /\ sock[c] = "closed" => (~InConnections(c) /\ outbuf[c] = <<>>)

(* ------------------------------------------------------------------ *)
(* C13: for every device id in 0..15, every function byte and every      *)
(* payload, the empty one included, the frame header ++ id ++ separator  *)
(* ++ function ++ payload ++ terminator is accepted by the response      *)
(* decoder, which recovers the device id, the function byte and exactly  *)
(* the payload bytes.                                                    *)
(* ------------------------------------------------------------------ *)
C13_EncodeDecodeRoundTrip ==
    codec.op = "roundtrip" =>
       /\ codec.accepted
       /\ codec.id_out = codec.id
       /\ codec.fn_out = codec.fn
       /\ codec.payload_out = codec.payload

(* ------------------------------------------------------------------ *)
(* C14: for every channel with descriptors in the Layout Table, the      *)
(* value reconstructed from a dump is low7 | (bit8 << 7) | (bit9 << 8),  *)
(* low7 the 7-bit value of the byte at the first descriptor, bit8 and    *)
(* bit9 the single bits (0 or 1) the second and third descriptor select, *)
(* whatever their bit index; the value lies in 0..511.                   *)
(* ------------------------------------------------------------------ *)
C14_DumpFieldReconstruction ==
    codec.op = "parse_dump" =>
       /\ codec.raised = ""
       /\ codec.value = codec.low7 + codec.bit8 * 128 + codec.bit9 * 256
       /\ codec.value \in 0..511

(* ------------------------------------------------------------------ *)
(* C15: a Ping response is accepted only if it is exactly 25 bytes long, *)
(* and a response that is not accepted decodes no channel; of an         *)
(* accepted response every channel's status byte s decodes to limited =  *)
(* (bit 5 of s is set) and level = s with bit 5 cleared: 37 gives level  *)
(* 5 and limited, 5 gives level 5 and not limited.                       *)
(* ------------------------------------------------------------------ *)
C15_PingDecode ==
    codec.op = "ping" =>
       /\ codec.accepted => Len(codec.data) = 25
       /\ ~codec.accepted => codec.channels = <<>>
       /\ codec.accepted =>
             \A ch \in PingChannels :
                LET s == At(codec.data, 8 + ch)
                    c == codec.channels[ch]
                IN  /\ c.limited = (s \in {32, 37, 127})
                    /\ c.level = (IF c.limited THEN s - 32 ELSE s)
                    /\ s = 37 => (c.level = 5 /\ c.limited)
                    /\ s = 5 => (c.level = 5 /\ ~c.limited)

\* a Ping of 25 bytes was decoded whose status byte for a channel is 37
C15_Witness ==
    /\ codec.op = "ping"
    /\ codec.accepted
    /\ codec.status = 37
    /\ codec.channels[codec.channel].level = 5

(* ------------------------------------------------------------------ *)
(* C16: a Search response is accepted only if it is exactly 26 bytes     *)
(* long (25 and 27 bytes are rejected); of an accepted response the      *)
(* device id is the byte at offset 4 and shown_id is that byte plus 1:   *)
(* device id byte 3 gives shown_id 4.                                    *)
(* ------------------------------------------------------------------ *)
C16_SearchDecode ==
    codec.op = "search" =>
       /\ codec.accepted => Len(codec.data) = 26
       /\ Len(codec.data) \in {25, 27} => ~codec.accepted
       /\ codec.accepted =>
             /\ codec.device_id = codec.data[5]
             /\ codec.shown_id = codec.data[5] + 1
             /\ codec.data[5] = 3 => codec.shown_id = 4

\* a Search response of 26 bytes with device id byte 3 was decoded
C16_Witness ==
    /\ codec.op = "search"
    /\ codec.accepted
    /\ codec.data[5] = 3
    /\ codec.shown_id = 4

(* ------------------------------------------------------------------ *)
(* C17: a command is encoded as exactly 4 bytes: channel, parameter,     *)
(* (value >> 7) masked to 8 bits, value masked to 7 bits; the last byte  *)
(* is always in 0..127, and for every value in 0..32767 the value is     *)
(* recovered as (value-high << 7) | value-low.                           *)
(* ------------------------------------------------------------------ *)
C17_CommandEncoding ==
    codec.op = "command" =>
       /\ Len(codec.bytes) = 4
       /\ codec.bytes[1] = codec.channel
       /\ codec.bytes[2] = codec.parameter
       /\ codec.bytes[3] \in 0..255
       /\ codec.bytes[4] \in 0..127
       /\ codec.value >= 0 =>
             /\ codec.bytes[4] = codec.value - 128 * (codec.value \div 128)
             /\ codec.bytes[3] = (codec.value \div 128) - 256 * (codec.value \div 32768)
       /\ codec.value \in 0..32767 =>
             codec.bytes[3] * 128 + codec.bytes[4] = codec.value

\* the largest value that is recovered was encoded
C17_Witness ==
    /\ codec.op = "command"
    /\ codec.value = 32767
    /\ codec.bytes[3] = 255
    /\ codec.bytes[4] = 127

(* ------------------------------------------------------------------ *)
(* C18: Connector.handle_command writes the command first, and after    *)
(* the write reads a response if and only if the function byte is        *)
(* SEARCH, PING or DUMP; for a COMMAND or TRANSMIT frame it returns None *)
(* and reads nothing.                                                    *)
(* ------------------------------------------------------------------ *)
C18_WriteThenReadIfAnswered ==
    codec.op = "handle_command" =>
       LET c == codec.command
           ev == codec.r.events
       IN  /\ ev # <<>>
           /\ ev[1].op = "write" /\ ev[1].data = c
           /\ \A k \in 2..Len(ev) : ev[k].op = "read"
           /\ Len(ev) <= 2
           /\ (codec.write = "ok" /\ Len(c) > FUNCTION_BYTE) =>
                 ((Len(ev) = 2) <=> (At(c, FUNCTION_BYTE) \in {SEARCH, PING, DUMP}))
           /\ codec.write # "ok" => Len(ev) = 1
           /\ (Len(c) > FUNCTION_BYTE /\ At(c, FUNCTION_BYTE) \in {COMMAND, TRANSMIT}) =>
                 /\ Len(ev) = 1
                 /\ codec.r.resp = None
                 /\ codec.write = "ok" => codec.r.raised = ""

\* a PING frame was written, its response read and returned
C18_Witness ==
    /\ codec.op = "handle_command"
    /\ codec.command = PingFrame
    /\ Len(codec.r.events) = 2
    /\ codec.r.events[2].data = PingReply
    /\ codec.r.resp = PingReply

C20_ResponseOfThatCommand ==
    remote.state # "none" =>
       \A i \in 1..Len(remote.calls) :
          LET call == remote.calls[i]
          IN  (call.reads /\ call.done) =>
                 /\ call.raised = ""
                 /\ call.reply # <<>>
                 /\ call.returned = call.reply

(* ------------------------------------------------------------------ *)
(* C21: reading a response terminates on both transports. Whenever       *)
(* read_response has returned it did so with the first chunk that holds  *)
(* the terminator (serial: or with the first read that yields no data),  *)
(* and every call of read_response returns: on the serial line when the  *)
(* terminator is read or the line falls silent, on the daemon's socket   *)
(* at the first chunk with the terminator or when the daemon closes the  *)
(* connection before any terminator arrived.                             *)
(* ------------------------------------------------------------------ *)
C21_ReadResponseTerminates ==
    /\ [](reader.state = "returned" => ReturnedAtFirstEnd)
    /\ (reader.state = "reading") ~> (reader.state = "returned")

(* ------------------------------------------------------------------ *)
(* C22: every frame the client library puts on the wire holds the        *)
(* terminator byte 0xF7 only as its last byte, for every batch size the  *)
(* pending queue can reach and every command value invoked, and so the   *)
(* daemon's frame extraction (first terminator at offset 7 or later)     *)
(* yields exactly the frame the client sent, never a prefix of it.       *)
(* ------------------------------------------------------------------ *)
C22_TerminatorOnlyLast ==
    (pc = "wire" /\ dev.last # NoCall) =>
       \A i \in 1..Len(dev.last.frames) :
          /\ TerminatorOnlyLast(dev.last.frames[i])
          /\ ExtractedWhole(dev.last.frames[i])

(* ------------------------------------------------------------------ *)
(* C23: decoded Ping responses are independent of each other: decoding   *)
(* a later Ping response leaves the level and limited values that every  *)
(* previously decoded Ping response reports for each channel as they     *)
(* were when that response was decoded.                                  *)
(* ------------------------------------------------------------------ *)
C23_PingResponsesIndependent ==
    pings.state # "none" =>
       \A i \in 1..Len(pings.objects) :
          pings.objects[i].raised = "" =>
             \A ch \in PingChannels :
                /\ ChannelsOf(i)[ch].level = pings.objects[i].decoded[ch].level
                /\ ChannelsOf(i)[ch].limited = pings.objects[i].decoded[ch].limited

====
